---- MODULE Spec2Model ----
(***************************************************************************)
(* Model of frcnn/network.py: the FasterRCNN orchestrator.                 *)
(*                                                                         *)
(* Tensors are sequences (1-indexed) of integers; a box is <<x1,y1,x2,y2>>.*)
(* The graph-global collections of TensorFlow (tf.GraphKeys.LOSSES and the *)
(* summaries) are state of the program, because FasterRCNN.loss writes to  *)
(* and reads from them.  The sub-components (VGG, RPN, ROIPoolingLayer,    *)
(* RCNN) are black boxes: what they return is an input of the action.      *)
(***************************************************************************)
EXTENDS Integers, Sequences, FiniteSets, TLC

\* ---------------------------------------------------------------- bounds
MaxGrid == 2
MaxCalls == 3

\* ------------------------------------------------------- tensor helpers
RECURSIVE SumSeq(_)
SumSeq(s) == IF s = <<>> THEN 0 ELSE Head(s) + SumSeq(Tail(s))

\* a range that starts at 1 instead of 0
TfRangeFromOne(n) == [i \in 1..n |-> i]

\* tf.range(n): 0, 1, ..., n-1
TfRange(n) == [i \in 1..n |-> i - 1]

\* tensor * scalar
TfMul(t, c) == [i \in 1..Len(t) |-> t[i] * c]

\* utils.ops.meshgrid(x, y): two grids of shape (len(y), len(x)); xgrid
\* repeats x along the rows, ygrid repeats y along the columns.
Meshgrid(x, y) ==
    [xgrid |-> [r \in 1..Len(y) |-> [c \in 1..Len(x) |-> x[c]]],
     ygrid |-> [r \in 1..Len(y) |-> [c \in 1..Len(x) |-> y[r]]],
     rows |-> Len(y), cols |-> Len(x)]

\* tf.reshape(grid, [-1]) of a rows x cols grid: row-major flattening
ReshapeFlat(grid, rows, cols) ==
    [n \in 1..(rows * cols) |-> grid[((n - 1) \div cols) + 1][((n - 1) % cols) + 1]]

\* tf.transpose(tf.stack([a, b, c, d], axis=0)): one row <<a[p],b[p],c[p],d[p]>> per p
StackTranspose(a, b, c, d) ==
    [p \in 1..Len(a) |-> <<a[p], b[p], c[p], d[p]>>]

\* reference.reshape((1, k, 4)) + transpose(reshape(shifts, (1, P, 4)), (1, 0, 2)):
\* (1, k, 4) + (P, 1, 4) broadcasts to (P, k, 4)
BroadcastAdd(reference, shifts) ==
    [p \in 1..Len(shifts) |->
        [a \in 1..Len(reference) |->
            [c \in 1..4 |-> reference[a][c] + shifts[p][c]]]]

\* a reshape that reads the tensor as (k, P, 4): anchor-major output
ReshapeBoxesAnchorMajor(t, k, P) ==
    [n \in 1..(k * P) |-> t[((n - 1) % P) + 1][((n - 1) \div P) + 1]]

\* tf.reshape(t, (k * P, 4)) of a (P, k, 4) tensor: row-major
ReshapeBoxes(t, k, P) ==
    [n \in 1..(k * P) |-> t[((n - 1) \div k) + 1][((n - 1) % k) + 1]]

\* ------------------------------------------------- reference anchors
ISqrt(n) == CHOOSE r \in 0..n : r * r <= n /\ (r + 1) * (r + 1) > n

\* utils.generate_anchors.generate_anchors: one box per (ratio, scale) pair,
\* area base^2 * scale^2, aspect h / w = ratio, centred at the origin.
ReferenceBox(base, ratio, scale) ==
    LET w == (base * scale) \div ISqrt(ratio)
        h == (base * scale) * ISqrt(ratio)
    IN  <<0 - (w \div 2), 0 - (h \div 2), w \div 2, h \div 2>>

generate_anchors_reference(base, ratios, scales) ==
    [n \in 1..(Len(ratios) * Len(scales)) |->
        ReferenceBox(base,
                     ratios[((n - 1) \div Len(scales)) + 1],
                     scales[((n - 1) % Len(scales)) + 1])]

\* ------------------------------------------------------------- inputs
NoneClasses == 0 - 1

\* configurations handed to the constructor; the last three are invalid
\* (stride 0, scale 0, no class count)
Configs ==
    { [ANCHOR_BASE_SIZE |-> 4, ANCHOR_SCALES |-> <<1, 2>>, ANCHOR_RATIOS |-> <<1, 4>>,
       ANCHOR_STRIDE |-> 2, LOSS_WEIGHTS |-> <<1, 2, 1, 2>>, num_classes |-> 2],
      [ANCHOR_BASE_SIZE |-> 4, ANCHOR_SCALES |-> <<1, 2>>, ANCHOR_RATIOS |-> <<1, 4>>,
       ANCHOR_STRIDE |-> 3, LOSS_WEIGHTS |-> <<3, 1, 2, 5>>, num_classes |-> 2],
      [ANCHOR_BASE_SIZE |-> 4, ANCHOR_SCALES |-> <<1>>, ANCHOR_RATIOS |-> <<1, 4>>,
       ANCHOR_STRIDE |-> 0, LOSS_WEIGHTS |-> <<1, 2, 1, 2>>, num_classes |-> 2],
      [ANCHOR_BASE_SIZE |-> 4, ANCHOR_SCALES |-> <<0>>, ANCHOR_RATIOS |-> <<1>>,
       ANCHOR_STRIDE |-> 2, LOSS_WEIGHTS |-> <<1, 2, 1, 2>>, num_classes |-> 2],
      [ANCHOR_BASE_SIZE |-> 4, ANCHOR_SCALES |-> <<2>>, ANCHOR_RATIOS |-> <<4>>,
       ANCHOR_STRIDE |-> 1, LOSS_WEIGHTS |-> <<1, 2, 1, 2>>, num_classes |-> NoneClasses] }

\* dataset samples: an image of shape (1, h, w, 3), whose content stands for
\* the pixel values, and its ground-truth boxes
Samples ==
    { [image |-> [h |-> MaxGrid, w |-> MaxGrid + 1, content |-> 0],
       gt_boxes |-> <<>>],
      [image |-> [h |-> MaxGrid, w |-> MaxGrid + 1, content |-> 1],
       gt_boxes |-> << <<1, 1, 2, 2>> >>] }

\* what the RPN and the RCNN black boxes may return in one pass: the RPN's
\* proposals and two loss terms, the RCNN's two loss terms
NetworkOutputs ==
    { [rpn |-> [proposals |-> <<>>, rpn_cls_loss |-> 1, rpn_reg_loss |-> 0],
       rcnn |-> [rcnn_cls_loss |-> 0, rcnn_reg_loss |-> 0]],
      [rpn |-> [proposals |-> << <<0, 0, 1, 1>>, <<1, 0, 2, 1>> >>,
                rpn_cls_loss |-> 2, rpn_reg_loss |-> 1],
       rcnn |-> [rcnn_cls_loss |-> 1, rcnn_reg_loss |-> 3]] }

\* ------------------------------------------------------------- state
VARIABLES
    pc,                     \* "new" before __init__, "ready" after
    cfg,                    \* self._cfg
    num_classes,            \* self._num_classes
    anchor_stride,          \* self._anchor_stride
    anchor_reference,       \* self._anchor_reference
    num_anchors,            \* self._num_anchors
    loss_weights,           \* <<rpn_cls, rpn_reg, rcnn_cls, rcnn_reg>> loss weights
    components,             \* the sub-components created by __init__
    error,                  \* the exception raised by the last call, or "none"
    graph_losses,           \* tf.GraphKeys.LOSSES of the graph
    summaries,              \* how many summaries are registered in the graph
    prediction_dict,        \* the bundle returned by the last _build
    call_log,               \* the stages run by the last _build, in order
    wiring,                 \* what ROI pooling and the RCNN head received
    total_loss,             \* the scalar returned by the last loss
    num_builds,             \* how many times _build ran
    num_loss_calls,         \* how many times loss ran
    anchor_sample,          \* one earlier _generate_anchors call, picked arbitrarily
    first_loss              \* the first loss call: what it read and returned

vars == <<pc, cfg, num_classes, anchor_stride, anchor_reference, num_anchors,
          loss_weights, components, error, graph_losses, summaries,
          prediction_dict, call_log, wiring, total_loss, num_builds,
          num_loss_calls, anchor_sample, first_loss>>

selfVars == <<cfg, num_classes, anchor_stride, anchor_reference, num_anchors,
              loss_weights, components>>

NoConfig == [ANCHOR_BASE_SIZE |-> 0, ANCHOR_SCALES |-> <<>>, ANCHOR_RATIOS |-> <<>>,
             ANCHOR_STRIDE |-> 0, LOSS_WEIGHTS |-> <<0, 0, 0, 0>>, num_classes |-> NoneClasses]

NoBundle == [image_shape |-> <<0, 0>>, all_anchors |-> <<>>,
             rpn_prediction |-> [proposals |-> <<>>, rpn_cls_loss |-> 0, rpn_reg_loss |-> 0],
             classification_prediction |-> [rcnn_cls_loss |-> 0, rcnn_reg_loss |-> 0],
             roi_pool |-> <<>>, gt_boxes |-> <<>>,
             rpn_drawn_image |-> [content |-> 0, boxes |-> <<>>]]

NoWiring == [image |-> [h |-> 0, w |-> 0, content |-> 0],
             gt_boxes |-> <<>>,
             feature_map |-> [h |-> 0, w |-> 0, content |-> 0],
             rpn_output |-> NoBundle.rpn_prediction,
             roi_pool_output |-> <<>>,
             rcnn_output |-> NoBundle.classification_prediction,
             roi_pool_proposals |-> <<>>,
             roi_pool_feature_map |-> [h |-> 0, w |-> 0, content |-> 0],
             rcnn_pooled |-> <<>>, rcnn_proposals |-> <<>>, rcnn_gt_boxes |-> <<>>]

NoSample == [taken |-> FALSE, h |-> 0, w |-> 0, content |-> 0, reference |-> <<>>,
             anchors |-> <<>>]

NoLoss == [rpn_prediction |-> NoBundle.rpn_prediction,
           classification_prediction |-> NoBundle.classification_prediction,
           total_loss |-> 0]

Init ==
    /\ pc = "new"
    /\ cfg = NoConfig
    /\ num_classes = NoneClasses
    /\ anchor_stride = 0
    /\ anchor_reference = <<>>
    /\ num_anchors = 0
    /\ loss_weights = <<0, 0, 0, 0>>
    /\ components = {}
    /\ error = "none"
    /\ graph_losses = <<>>
    /\ summaries = 0
    /\ prediction_dict = NoBundle
    /\ call_log = <<>>
    /\ wiring = NoWiring
    /\ total_loss = 0
    /\ num_builds = 0
    /\ num_loss_calls = 0
    /\ anchor_sample = NoSample
    /\ first_loss = NoLoss

\* ----------------------------------------------------------- __init__
\* the loss weights __init__ stores
InitLossWeights(config) == <<1, 2, 1, 2>>

\* the exception __init__ raises for a configuration ("none": it returns)
InitError(config) == "none"

Construct ==
    /\ pc = "new"
    /\ \E config \in Configs :
          LET reference == generate_anchors_reference(
                               config.ANCHOR_BASE_SIZE, config.ANCHOR_RATIOS,
                               config.ANCHOR_SCALES)
          IN  /\ cfg' = config
              /\ num_classes' = config.num_classes
              /\ anchor_stride' = config.ANCHOR_STRIDE
              /\ anchor_reference' = reference
              /\ num_anchors' = Len(reference)
              /\ loss_weights' = InitLossWeights(config)
              /\ error' = InitError(config)
              /\ components' = {"pretrained", "rpn", "roi_pool", "rcnn"}
    /\ pc' = "ready"
    /\ UNCHANGED <<graph_losses, summaries, prediction_dict, call_log, wiring,
                   total_loss, num_builds, num_loss_calls, anchor_sample,
                   first_loss>>

\* -------------------------------------------------- _generate_anchors
\* the grid width read from axis 1 instead of axis 2
GridWidthFromAxis1(feature_map) == feature_map.h

\* grid_width and grid_height of a feature map of shape (1, h, w, C)
GridWidth(feature_map) == feature_map.w

GridHeight(feature_map) == feature_map.h

\* the (H x W, 4) tensor of shifts
Shifts(grid_width, grid_height, stride) ==
    LET shift_x == TfMul(TfRange(grid_width), stride)
        shift_y == TfMul(TfRange(grid_height), stride)
        grid == Meshgrid(shift_x, shift_y)
        flat_x == ReshapeFlat(grid.xgrid, grid.rows, grid.cols)
        flat_y == ReshapeFlat(grid.ygrid, grid.rows, grid.cols)
    IN  StackTranspose(flat_x, flat_y, flat_x, flat_y)

\* anchors whose shifts also depend on the feature map's values
GenerateAnchorsFromContent(reference, stride, feature_map) ==
    LET shifts == Shifts(GridWidth(feature_map), GridHeight(feature_map),
                         stride + feature_map.content)
    IN  ReshapeBoxes(BroadcastAdd(reference, shifts), Len(reference), Len(shifts))

GenerateAnchors(reference, stride, feature_map) ==
    LET shifts == Shifts(GridWidth(feature_map), GridHeight(feature_map), stride)
        k == Len(reference)
        num_anchor_points == Len(shifts)
    IN  ReshapeBoxes(BroadcastAdd(reference, shifts), k, num_anchor_points)

\* -------------------------------------------------------------- _build
\* tf.shape(image)[1:3]
ImageShape(image) == <<image.h, image.w>>

\* ROIPoolingLayer: one pooled block per proposal, in the proposals' order
ROIPool(proposals, feature_map) ==
    [n \in 1..Len(proposals) |-> [box |-> proposals[n], content |-> feature_map.content]]

\* draw_bboxes(image, boxes)
draw_bboxes(image, boxes) == [content |-> image.content, boxes |-> boxes]

\* the stages _build calls, in the order it calls them
BuildStages == <<"pretrained", "generate_anchors", "rpn", "roi_pool", "rcnn">>

\* the arguments of self._roi_pool(...)
RoiPoolInputs(rpn_prediction, pretrained_output) ==
    [proposals |-> rpn_prediction.proposals, feature_map |-> pretrained_output]

\* the RCNN head called with the ground truth in the place of the proposals
RcnnInputsMixed(roi_pool, rpn_prediction, gt_boxes) ==
    [pooled |-> roi_pool, proposals |-> gt_boxes, gt_boxes |-> gt_boxes]

\* the arguments of self._rcnn(...)
RcnnInputs(roi_pool, rpn_prediction, gt_boxes) ==
    [pooled |-> roi_pool, proposals |-> rpn_prediction.proposals, gt_boxes |-> gt_boxes]

\* a dictionary whose 'image_shape' is the feature map's shape
BuildResultFeatureShape(image_shape, pretrained_output, all_anchors, rpn_prediction, classification_prediction, roi_pool, gt_boxes, drawn_image) ==
    [image_shape |-> <<pretrained_output.h, pretrained_output.w>>,
     all_anchors |-> all_anchors,
     rpn_prediction |-> rpn_prediction,
     classification_prediction |-> classification_prediction,
     roi_pool |-> roi_pool,
     gt_boxes |-> gt_boxes,
     rpn_drawn_image |-> drawn_image]

\* the dictionary _build returns
BuildResult(image_shape, pretrained_output, all_anchors, rpn_prediction, classification_prediction, roi_pool, gt_boxes, drawn_image) ==
    [image_shape |-> image_shape,
     all_anchors |-> all_anchors,
     rpn_prediction |-> rpn_prediction,
     classification_prediction |-> classification_prediction,
     roi_pool |-> roi_pool,
     gt_boxes |-> gt_boxes,
     rpn_drawn_image |-> drawn_image]

Build ==
    /\ pc = "ready"
    /\ num_builds + num_loss_calls < MaxCalls
    /\ \E sample \in Samples, fh \in 0..MaxGrid, fw \in 0..MaxGrid :
          LET image == sample.image
              gt_boxes == sample.gt_boxes
              image_shape == ImageShape(image)
              \* the backbone: a feature map no larger than the image
              pretrained_output == [h |-> fh, w |-> fw, content |-> image.content]
              all_anchors == GenerateAnchors(anchor_reference, anchor_stride,
                                             pretrained_output)
          IN  /\ fh <= image.h /\ fw <= image.w
              /\ \E out \in NetworkOutputs,
                    keep \in (IF anchor_sample.taken THEN {FALSE} ELSE BOOLEAN) :
                    LET rpn_prediction == out.rpn
                        roi_in == RoiPoolInputs(rpn_prediction, pretrained_output)
                        roi_pool == ROIPool(roi_in.proposals, roi_in.feature_map)
                        rcnn_in == RcnnInputs(roi_pool, rpn_prediction, gt_boxes)
                        classification_prediction == out.rcnn
                        drawn_image == draw_bboxes(image, rpn_prediction.proposals)
                    IN  /\ prediction_dict' =
                              BuildResult(image_shape, pretrained_output, all_anchors,
                                          rpn_prediction, classification_prediction,
                                          roi_pool, gt_boxes, drawn_image)
                        /\ call_log' = BuildStages
                        /\ wiring' = [image |-> image,
                                      gt_boxes |-> gt_boxes,
                                      feature_map |-> pretrained_output,
                                      rpn_output |-> out.rpn,
                                      roi_pool_output |-> roi_pool,
                                      rcnn_output |-> out.rcnn,
                                      roi_pool_proposals |-> roi_in.proposals,
                                      roi_pool_feature_map |-> roi_in.feature_map,
                                      rcnn_pooled |-> rcnn_in.pooled,
                                      rcnn_proposals |-> rcnn_in.proposals,
                                      rcnn_gt_boxes |-> rcnn_in.gt_boxes]
                        /\ anchor_sample' =
                              IF keep
                              THEN [taken |-> TRUE, h |-> fh, w |-> fw,
                                    content |-> image.content,
                                    reference |-> anchor_reference,
                                    anchors |-> all_anchors]
                              ELSE anchor_sample
    /\ summaries' = summaries + 2
    /\ num_builds' = num_builds + 1
    /\ UNCHANGED <<pc, selfVars, error, graph_losses, total_loss,
                   num_loss_calls, first_loss>>

\* ---------------------------------------------------------------- loss
\* self._rpn.loss(rpn_prediction): the items of the dictionary it returns
RpnLoss(rpn_prediction) ==
    << [name |-> "rpn_cls_loss", value |-> rpn_prediction.rpn_cls_loss],
       [name |-> "rpn_reg_loss", value |-> rpn_prediction.rpn_reg_loss] >>

\* self._rcnn.loss(classification_prediction): the items of its dictionary
RcnnLoss(classification_prediction) ==
    << [name |-> "rcnn_cls_loss", value |-> classification_prediction.rcnn_cls_loss],
       [name |-> "rcnn_reg_loss", value |-> classification_prediction.rcnn_reg_loss] >>

\* the two dictionaries after each term is multiplied by its weight,
\* as list(rpn_loss_dict.items()) + list(rcnn_loss_dict.items())
WeightedLosses(bundle, weights) ==
    LET rpn_loss_dict == RpnLoss(bundle.rpn_prediction)
        rcnn_loss_dict == RcnnLoss(bundle.classification_prediction)
    IN  << [name |-> "rpn_cls_loss", value |-> rpn_loss_dict[1].value * weights[1]],
           [name |-> "rpn_reg_loss", value |-> rpn_loss_dict[2].value * weights[2]],
           [name |-> "rcnn_cls_loss", value |-> rcnn_loss_dict[1].value * weights[3]],
           [name |-> "rcnn_reg_loss", value |-> rcnn_loss_dict[2].value * weights[4]] >>

\* tf.losses.add_loss for each term, then the collection
AddLosses(collection, terms) == collection \o terms

\* tf.losses.get_total_loss(): the sum of the graph's losses collection
GetTotalLoss(collection) ==
    SumSeq([i \in 1..Len(collection) |-> collection[i].value])

Loss ==
    /\ pc = "ready"
    /\ num_builds > 0
    /\ num_builds + num_loss_calls < MaxCalls
    /\ LET terms == WeightedLosses(prediction_dict, loss_weights)
           collection == AddLosses(graph_losses, terms)
           total == GetTotalLoss(collection)
       IN  /\ graph_losses' = collection
           /\ summaries' = summaries + Len(terms) + 1
           /\ total_loss' = total
           /\ first_loss' =
                 IF num_loss_calls = 0
                 THEN [rpn_prediction |-> prediction_dict.rpn_prediction,
                       classification_prediction |->
                           prediction_dict.classification_prediction,
                       total_loss |-> total]
                 ELSE first_loss
    /\ num_loss_calls' = num_loss_calls + 1
    /\ UNCHANGED <<pc, selfVars, error, prediction_dict, call_log, wiring,
                   num_builds, anchor_sample>>

Next == Construct \/ Build \/ Loss

Spec == Init /\ [][Next]_vars

\* ============================================================ properties
\* the feature map, the grid and the anchors of the last _build
LastFeatureMap == wiring.feature_map

W == LastFeatureMap.w

H == LastFeatureMap.h

K == Len(anchor_reference)

LastAnchors == prediction_dict.all_anchors

Shifted(box, dx, dy) == <<box[1] + dx, box[2] + dy, box[3] + dx, box[4] + dy>>

\* C1: _generate_anchors returns exactly W*H*k boxes of 4 coordinates each,
\* for every grid of width W and height H (0 included) and k reference anchors.
C1_AnchorCount ==
    num_builds > 0 =>
        /\ Len(LastAnchors) = W * H * K
        /\ \A n \in 1..Len(LastAnchors) : Len(LastAnchors[n]) = 4

C1_Witness ==
    /\ num_builds > 0
    /\ W = 2 /\ H = 1 /\ K = 4
    /\ Len(LastAnchors) = 8

\* C2: on a non-empty grid, the box at output index i (0 <= i < k) is the
\* unshifted reference anchor i.
C2_FirstCellIsReference ==
    (num_builds > 0 /\ W > 0 /\ H > 0) =>
        \A i \in 1..K : LastAnchors[i] = anchor_reference[i]

C2_Witness ==
    /\ num_builds > 0
    /\ W = 2 /\ H = 2 /\ K = 4 /\ anchor_stride = 2
    /\ LastAnchors[2] = anchor_reference[2]
    /\ anchor_reference[2] # anchor_reference[1]

\* the cell (i, j) at position p of the flattened grid
CellAt(p) == <<p % W, p \div W>>

\* C3: the output is cell-major, then anchor index within the cell: the box
\* at index p*k + a is reference[a] shifted by (i*stride, j*stride) in both
\* coordinate pairs, (i, j) being the cell at position p, 0 <= i < W (axis 2),
\* 0 <= j < H (axis 1); every cell has exactly one block of k boxes.
C3_CellMajorOrder ==
    (num_builds > 0 /\ W > 0 /\ H > 0) =>
        /\ Len(LastAnchors) = W * H * K
        /\ \A p \in 0..(W * H - 1) :
              LET i == CellAt(p)[1]
                  j == CellAt(p)[2]
              IN  /\ i \in 0..(W - 1) /\ j \in 0..(H - 1)
                  /\ \A a \in 0..(K - 1) :
                        LastAnchors[p * K + a + 1] =
                            Shifted(anchor_reference[a + 1],
                                    i * anchor_stride, j * anchor_stride)
        /\ \A i \in 0..(W - 1), j \in 0..(H - 1) :
              Cardinality({p \in 0..(W * H - 1) : CellAt(p) = <<i, j>>}) = 1

C3_Witness ==
    /\ num_builds > 0
    /\ W = 2 /\ H = 2 /\ K = 4 /\ anchor_stride = 3
    /\ LastAnchors[2 * K + 2] = Shifted(anchor_reference[2], 0, 3)
    /\ LastAnchors[1 * K + 2] = Shifted(anchor_reference[2], 3, 0)

\* the weighted sum of the four component losses of a bundle
WeightedSum(bundle) ==
    bundle.rpn_prediction.rpn_cls_loss * loss_weights[1]
    + bundle.rpn_prediction.rpn_reg_loss * loss_weights[2]
    + bundle.classification_prediction.rcnn_cls_loss * loss_weights[3]
    + bundle.classification_prediction.rcnn_reg_loss * loss_weights[4]

IsLossCall == num_loss_calls' = num_loss_calls + 1

\* C4: the scalar loss(bundle) returns is rpn_cls_loss*rpn_cls_weight +
\* rpn_reg_loss*rpn_reg_weight + rcnn_cls_loss*rcnn_cls_weight +
\* rcnn_reg_loss*rcnn_reg_weight of that bundle, and nothing else.
C4_LossIsWeightedSum ==
    [][IsLossCall => total_loss' = WeightedSum(prediction_dict)]_vars

\* C5: loss on a bundle returns what it returned on the first call for the
\* same bundle: nothing an earlier forward or loss call registered carries over.
C5_LossStateless ==
    [][(/\ IsLossCall
        /\ num_loss_calls > 0
        /\ prediction_dict.rpn_prediction = first_loss.rpn_prediction
        /\ prediction_dict.classification_prediction =
               first_loss.classification_prediction)
       => total_loss' = first_loss.total_loss]_vars

\* a configuration the constructor must reject
InvalidConfig(config) ==
    \/ config.ANCHOR_STRIDE <= 0
    \/ \E n \in 1..Len(config.ANCHOR_SCALES) : config.ANCHOR_SCALES[n] <= 0
    \/ \E n \in 1..Len(config.ANCHOR_RATIOS) : config.ANCHOR_RATIOS[n] <= 0
    \/ config.num_classes < 1

\* C6: constructing with an invalid configuration raises ConfigError before
\* any sub-component is created and before any forward pass can run.
C6_InvalidConfigRejected ==
    (pc # "new" /\ InvalidConfig(cfg)) =>
        (error = "ConfigError" /\ components = {} /\ num_builds = 0)

\* C7 as amended: every forward pass returns a bundle built from that pass
\* alone: the input image's spatial shape (height, width), the anchors
\* generated in that pass, the RPN outputs, the classification outputs, the
\* pooled features and the ground-truth boxes exactly as passed in.
C7_BundleContents ==
    num_builds > 0 =>
        /\ prediction_dict.image_shape = <<wiring.image.h, wiring.image.w>>
        /\ prediction_dict.all_anchors =
               GenerateAnchors(anchor_reference, anchor_stride, wiring.feature_map)
        /\ prediction_dict.rpn_prediction = wiring.rpn_output
        /\ prediction_dict.classification_prediction = wiring.rcnn_output
        /\ prediction_dict.roi_pool = wiring.roi_pool_output
        /\ prediction_dict.gt_boxes = wiring.gt_boxes

C7_Witness ==
    /\ num_builds = 2
    /\ prediction_dict.gt_boxes = << <<1, 1, 2, 2>> >>
    /\ Len(prediction_dict.roi_pool) = 2
    /\ Len(prediction_dict.all_anchors) > 0
    /\ prediction_dict.image_shape # <<H, W>>

\* C7 as stated: the bundle holds the feature-map shape (with the anchors,
\* the RPN and classification outputs, the pooled features and the echoed
\* ground truth).
C7_Original ==
    num_builds > 0 =>
        /\ prediction_dict.image_shape = <<H, W>>
        /\ prediction_dict.rpn_prediction = wiring.rpn_output
        /\ prediction_dict.classification_prediction = wiring.rcnn_output
        /\ prediction_dict.roi_pool = wiring.roi_pool_output
        /\ prediction_dict.gt_boxes = wiring.gt_boxes

\* C8: in every forward pass the stages run once each in the order backbone,
\* anchors, RPN, ROI pooling, RCNN head; ROI pooling receives the RPN's
\* proposals of that pass and the backbone's feature map, the RCNN head the
\* pooled features and the same proposals; pooled block n pairs with proposal n.
C8_StageOrderAndPairing ==
    num_builds > 0 =>
        /\ call_log = <<"pretrained", "generate_anchors", "rpn", "roi_pool", "rcnn">>
        /\ wiring.roi_pool_proposals = wiring.rpn_output.proposals
        /\ wiring.roi_pool_feature_map = wiring.feature_map
        /\ wiring.rcnn_pooled = wiring.roi_pool_output
        /\ wiring.rcnn_proposals = wiring.rpn_output.proposals
        /\ Len(wiring.rcnn_pooled) = Len(wiring.rcnn_proposals)
        /\ \A n \in 1..Len(wiring.rcnn_proposals) :
              wiring.rcnn_pooled[n].box = wiring.rcnn_proposals[n]

C8_Witness ==
    /\ num_builds > 0
    /\ Len(wiring.rcnn_proposals) = 2
    /\ wiring.rcnn_proposals[1] # wiring.rcnn_proposals[2]
    /\ wiring.gt_boxes # <<>>

\* C9: the four loss weights loss uses are those of the configuration given
\* at construction.
C9_WeightsFromConfig ==
    pc = "ready" => loss_weights = cfg.LOSS_WEIGHTS

\* C10: two _generate_anchors calls on feature maps of the same height and
\* width return the same anchors, whatever the contents and the calls made
\* in between, and the reference anchors are those set at construction.
C10_AnchorsDependOnShapeOnly ==
    (anchor_sample.taken /\ num_builds > 0) =>
        /\ anchor_sample.reference = anchor_reference
        /\ anchor_reference =
               generate_anchors_reference(cfg.ANCHOR_BASE_SIZE, cfg.ANCHOR_RATIOS,
                                          cfg.ANCHOR_SCALES)
        /\ (anchor_sample.h = H /\ anchor_sample.w = W)
               => anchor_sample.anchors = LastAnchors

C10_Witness ==
    /\ anchor_sample.taken
    /\ num_builds = 2
    /\ num_loss_calls = 1
    /\ anchor_sample.h = H /\ anchor_sample.w = W
    /\ anchor_sample.content # LastFeatureMap.content
    /\ W = 2 /\ H = 1 /\ K = 4
    /\ anchor_sample.anchors = LastAnchors

====
